---- MODULE Spec2Model ----
(***************************************************************************)
(* Model of boardgamegeek/objects/games.py: construction of BoardGameStats, *)
(* BaseGame / CollectionBoardGame / BoardGame from a raw nested record, and *)
(* the post-construction mutators add_comment, add_expansion and            *)
(* add_expanded_game.                                                       *)
(*                                                                          *)
(* A Python dict is a record whose optional keys carry the value Missing    *)
(* (or a `key`/`present` flag) when the key is absent.  A Python exception  *)
(* is a record [kind, msg]; NoError means the call returned normally.       *)
(***************************************************************************)
EXTENDS Integers, Sequences, FiniteSets

(***************************************************************************)
(* Bounds of the model                                                      *)
(***************************************************************************)
\* ids are drawn from 1..MaxId
MaxId == 2
\* total size of the material fed to one game: nested elements of the input
\* record plus later mutator calls
MaxWeight == 3
\* rank entries of a stats mapping constructed on its own
MaxRanks == 2
\* rank values are drawn from 1..MaxRankVal
MaxRankVal == 2

(***************************************************************************)
(* Exceptions                                                               *)
(***************************************************************************)
NoError == [kind |-> "none", msg |-> ""]
BGGError(m) == [kind |-> "BGGError", msg |-> m]
KeyError == [kind |-> "KeyError", msg |-> ""]
TypeError == [kind |-> "TypeError", msg |-> ""]
ValueError == [kind |-> "ValueError", msg |-> ""]
AttributeError == [kind |-> "AttributeError", msg |-> ""]

(***************************************************************************)
(* Raw values.  A raw id (or uploader_id, or rank value) is a Python int,   *)
(* a decimal string ("2"), a non-numeric string ("Not Ranked"), None, or    *)
(* the key is absent.  Two raw values are equal for Python's `in` exactly   *)
(* when they are equal here: 1 and "1" are different members of a set.      *)
(***************************************************************************)
Missing == [k |-> "missing", v |-> 0]
None == [k |-> "none", v |-> 0]
BadStr == [k |-> "badstr", v |-> 0]
IntVal(n) == [k |-> "int", v |-> n]
StrVal(n) == [k |-> "str", v |-> n]

\* ids a record may carry (key present): the ints 1..MaxId, the decimal string
\* "1" and a string that is no number
RawIds == {IntVal(n) : n \in 1..MaxId} \cup {StrVal(1), BadStr}

\* Python's int(x): [err, val]
int(x) ==
    CASE x.k = "int" -> [err |-> NoError, val |-> x.v]
      [] x.k = "str" -> [err |-> NoError, val |-> x.v]
      [] x.k = "badstr" -> [err |-> ValueError, val |-> 0]
      [] x.k = "none" -> [err |-> TypeError, val |-> 0]
      [] OTHER -> [err |-> KeyError, val |-> 0]

(***************************************************************************)
(* things.Thing.__init__ (the Identified-Thing wrapper): the record must    *)
(* carry an id coercible to an integer; the name is optional.  Any failure  *)
(* is the domain error.  The wrapper keeps the raw record as _data.         *)
(***************************************************************************)
Thing(rec) ==
    IF rec.id = Missing
    THEN [err |-> BGGError("missing id"), val |-> Missing]
    ELSE IF int(rec.id).err # NoError
    THEN [err |-> BGGError("id is not an int"), val |-> Missing]
    ELSE [err |-> NoError,
          val |-> [id |-> int(rec.id).val, name |-> rec.name, data |-> rec]]

(***************************************************************************)
(* Rank entries and BoardGameStats                                          *)
(***************************************************************************)
RankNames == {"boardgame", "family"}
\* key absent, None, "Not Ranked", the decimal string "1", or an int
RankValues == {Missing, None, BadStr, StrVal(1)} \cup {IntVal(n) : n \in 1..MaxRankVal}
\* a raw rank mapping; `name` is the key the scan reads, `type` the other label
RankRecs == [id : {IntVal(1), Missing}, type : RankNames, name : RankNames,
             value : RankValues]

\* BoardGameRank has no __init__ of its own: Thing.__init__ runs on the mapping
BoardGameRank(rank) == Thing(rank)

\* the statistics object before the loop: no rank, _bgg_rank not assigned
NewStats == [err |-> NoError, ranks |-> <<>>, has_bgg_rank |-> FALSE, bgg_rank |-> None]

\* the try/except around int(rank["value"]): KeyError and TypeError give None,
\* any other exception leaves the constructor
RankValueOf(rank) ==
    IF rank.value = Missing THEN [err |-> NoError, val |-> None]
    ELSE IF int(rank.value).err = TypeError THEN [err |-> NoError, val |-> None]
    ELSE IF int(rank.value).err # NoError THEN [err |-> int(rank.value).err, val |-> None]
    ELSE [err |-> NoError, val |-> IntVal(int(rank.value).val)]

\* mutant of IsBggRank: the scan compares the `type` key
IsBggRankByType(rank) == rank.type = "boardgame"

\* which entries designate the primary rank: rank.get("name") == "boardgame"
IsBggRank(rank) == rank.name = "boardgame"

\* mutant of StatsStep: a rank whose id is already in the list is passed over
StatsStepUnique(st, rank) ==
    IF st.err # NoError THEN st
    ELSE LET isbgg == IsBggRank(rank)
             v == RankValueOf(rank)
             r == BoardGameRank(rank)
         IN  IF isbgg /\ v.err # NoError THEN [st EXCEPT !.err = v.err]
             ELSE IF r.err # NoError THEN [st EXCEPT !.err = r.err]
             ELSE [err |-> NoError,
                   ranks |-> IF \E i \in 1..Len(st.ranks) : st.ranks[i].id = r.val.id
                             THEN st.ranks ELSE Append(st.ranks, r.val),
                   has_bgg_rank |-> st.has_bgg_rank \/ isbgg,
                   bgg_rank |-> IF isbgg THEN v.val ELSE st.bgg_rank]

\* one iteration of the loop over data.get("ranks", [])
StatsStep(st, rank) ==
    IF st.err # NoError THEN st
    ELSE LET isbgg == IsBggRank(rank)
             v == RankValueOf(rank)
             r == BoardGameRank(rank)
         IN  IF isbgg /\ v.err # NoError THEN [st EXCEPT !.err = v.err]
             ELSE IF r.err # NoError THEN [st EXCEPT !.err = r.err]
             ELSE [err |-> NoError,
                   ranks |-> Append(st.ranks, r.val),
                   has_bgg_rank |-> st.has_bgg_rank \/ isbgg,
                   bgg_rank |-> IF isbgg THEN v.val ELSE st.bgg_rank]

RECURSIVE StatsLoop(_, _)
StatsLoop(ranks, n) ==
    IF n = 0 THEN NewStats ELSE StatsStep(StatsLoop(ranks, n - 1), ranks[n])

\* BoardGameStats.__init__; sdata = [has_ranks, ranks] (the other keys of the
\* mapping are only read by accessors)
BoardGameStats(sdata) ==
    StatsLoop(IF sdata.has_ranks THEN sdata.ranks ELSE <<>>,
              IF sdata.has_ranks THEN Len(sdata.ranks) ELSE 0)

\* BoardGameStats.bgg_rank: reads self._bgg_rank, an attribute only the loop assigns
Stats_bgg_rank(st) ==
    IF st.has_bgg_rank THEN [err |-> NoError, val |-> st.bgg_rank]
    ELSE [err |-> AttributeError, val |-> None]

\* BoardGameStats.ranks
Stats_ranks(st) == st.ranks

(***************************************************************************)
(* Satellite records.  An element record of expansions / expands / videos / *)
(* versions is [id, name, uploader_id]; uploader_id is only read for videos.*)
(***************************************************************************)
\* BoardGameVideo.__init__: post_date parsing swallows every exception and is
\* left out; kw["uploader_id"] must exist and int() must accept it
BoardGameVideo(rec) ==
    IF rec.uploader_id = Missing THEN [err |-> KeyError, val |-> Missing]
    ELSE IF int(rec.uploader_id).err # NoError
    THEN [err |-> int(rec.uploader_id).err, val |-> Missing]
    ELSE LET t == Thing(rec)
         IN  IF t.err # NoError THEN t
             ELSE [err |-> NoError,
                   val |-> [id |-> t.val.id, name |-> t.val.name, data |-> rec,
                            uploader_id |-> int(rec.uploader_id).val]]

\* BoardGameVersion.__init__: fix_url on thumbnail/image, then Thing.__init__
BoardGameVersion(rec) == Thing(rec)

\* the wrapper class each list is filled with
Wrap(kind, rec) ==
    CASE kind = "video" -> BoardGameVideo(rec)
      [] kind = "version" -> BoardGameVersion(rec)
      [] OTHER -> Thing(rec)

\* mutant of Seen: the membership test never finds the id
SeenNever(rec, set) == FALSE

\* whether the loop skips a record: its raw id is in the seen-id set
Seen(rec, set) == rec.id \in set

\* one iteration of a deduplicating loop of the constructors:
\*     try: if x["id"] not in seen: seen.add(x["id"]); out.append(Wrapper(x))
\*     except KeyError: raise BGGError(tag)
\* the iteration once x["id"] has been read
ScanKnownId(acc, rec, kind, tag) ==
    IF Seen(rec, acc.set) THEN acc
    ELSE LET w == Wrap(kind, rec)
         IN  IF w.err = KeyError THEN [acc EXCEPT !.err = BGGError(tag)]
             ELSE IF w.err # NoError THEN [acc EXCEPT !.err = w.err]
             ELSE [err |-> NoError, list |-> Append(acc.list, w.val),
                   set |-> acc.set \cup {rec.id}]

\* mutant of ScanStep: a record without id is passed over instead of rejected
ScanStepLenient(acc, rec, kind, tag) ==
    IF acc.err # NoError THEN acc
    ELSE IF rec.id = Missing THEN acc
    ELSE ScanKnownId(acc, rec, kind, tag)

ScanStep(acc, rec, kind, tag) ==
    IF acc.err # NoError THEN acc
    ELSE IF rec.id = Missing THEN [acc EXCEPT !.err = BGGError(tag)]
    ELSE ScanKnownId(acc, rec, kind, tag)

RECURSIVE Scan(_, _, _, _)
Scan(items, n, kind, tag) ==
    IF n = 0 THEN [err |-> NoError, list |-> <<>>, set |-> {}]
    ELSE ScanStep(Scan(items, n - 1, kind, tag), items[n], kind, tag)

\* data.get(key, []) for a list-valued key
GetList(l) == IF l.key THEN l.items ELSE <<>>

ScanList(l, kind, tag) == Scan(GetList(l), Len(GetList(l)), kind, tag)

(***************************************************************************)
(* Poll results.  A poll input is [present, has_results, entries]; an entry *)
(* is TRUE when the nested mapping has every key the constructor indexes.   *)
(***************************************************************************)
\* the three loops over data[<poll>]["results"].items(); `indexed` tells whether
\* the loop indexes into each entry (numplayers, language_dependence) or packs
\* the entry as it is (playerage)
PollResults(p, indexed) ==
    IF ~p.present THEN [err |-> NoError, list |-> <<>>]
    ELSE IF ~p.has_results THEN [err |-> KeyError, list |-> <<>>]
    ELSE IF indexed /\ \E i \in 1..Len(p.entries) : ~p.entries[i]
    THEN [err |-> KeyError, list |-> <<>>]
    ELSE [err |-> NoError, list |-> [i \in 1..Len(p.entries) |-> i]]

\* BoardGameComment(data): a plain DictObject, no validation
BoardGameComment(c) == c

\* the loop `for comment in data.get("comments", []): self.add_comment(comment)`
CommentsOf(cs) == [i \in 1..Len(cs) |-> BoardGameComment(cs[i])]

\* fix_unsigned_negative(data["yearpublished"]), None on KeyError; the years of
\* the model are small, where the transform changes nothing
YearOf(y) == IF y = Missing THEN None ELSE y

(***************************************************************************)
(* Game constructors.  The input record d is                                *)
(*   [id, expansions, expands, videos, versions, comments, stats,           *)
(*    suggested_numplayers, suggested_playerage, language_dependence,       *)
(*    yearpublished]                                                        *)
(* A constructor yields [err, ...fields]; with err # NoError no instance    *)
(* exists and the fields are the blank ones.                                *)
(***************************************************************************)
Blank ==
    [err |-> NoError,
     expansions |-> <<>>, expansions_set |-> {},
     expands |-> <<>>, expands_set |-> {},
     videos |-> <<>>, videos_ids |-> {},
     versions |-> <<>>, versions_set |-> {},
     comments |-> <<>>,
     poll_results_numplayers |-> <<>>,
     poll_results_playerage |-> <<>>,
     poll_results_langdeps |-> <<>>,
     stats |-> NewStats,
     year_published |-> None,
     id |-> 0]

Raise(e) == [Blank EXCEPT !.err = e]

\* BaseGame.__init__ on the partly built object g: stats, year, versions, then
\* Thing.__init__ on the game record itself
BaseGame_init(g, d) ==
    IF ~d.stats.present THEN Raise(BGGError("invalid data"))
    ELSE LET st == BoardGameStats(d.stats)
             vs == ScanList(d.versions, "version", "invalid version data")
             t == Thing([id |-> d.id, name |-> 0])
         IN  IF st.err # NoError THEN Raise(st.err)
             ELSE IF vs.err # NoError THEN Raise(vs.err)
             ELSE IF t.err # NoError THEN Raise(t.err)
             ELSE [g EXCEPT !.stats = st,
                            !.year_published = YearOf(d.yearpublished),
                            !.versions = vs.list,
                            !.versions_set = vs.set,
                            !.id = t.val.id]

\* CollectionBoardGame.__init__
CollectionBoardGame_init(d) == BaseGame_init(Blank, d)

\* BoardGame.__init__: expansions, expands, videos, comments, the three polls,
\* then BaseGame.__init__
BoardGame_init(d) ==
    LET ex == ScanList(d.expansions, "thing", "invalid expansion data")
        ed == ScanList(d.expands, "thing", "invalid expanded game data")
        vi == ScanList(d.videos, "video", "invalid video data")
        pn == PollResults(d.suggested_numplayers, TRUE)
        pa == PollResults(d.suggested_playerage, FALSE)
        pl == PollResults(d.language_dependence, TRUE)
    IN  IF ex.err # NoError THEN Raise(ex.err)
        ELSE IF ed.err # NoError THEN Raise(ed.err)
        ELSE IF vi.err # NoError THEN Raise(vi.err)
        ELSE IF pn.err # NoError THEN Raise(pn.err)
        ELSE IF pa.err # NoError THEN Raise(pa.err)
        ELSE IF pl.err # NoError THEN Raise(pl.err)
        ELSE BaseGame_init(
                 [Blank EXCEPT !.expansions = ex.list, !.expansions_set = ex.set,
                               !.expands = ed.list, !.expands_set = ed.set,
                               !.videos = vi.list, !.videos_ids = vi.set,
                               !.comments = CommentsOf(GetList(d.comments)),
                               !.poll_results_numplayers = pn.list,
                               !.poll_results_playerage = pa.list,
                               !.poll_results_langdeps = pl.list],
                 d)

\* BaseGame.bgg_rank: self._stats.bgg_rank
Game_bgg_rank(g) == Stats_bgg_rank(g.stats)

(***************************************************************************)
(* State                                                                    *)
(***************************************************************************)
VARIABLES
    data,   \* the raw record handed to the constructor; it becomes self._data,
            \* so add_expansion / add_expanded_game append to its lists
    cls,    \* the class under construction or constructed
    pc,     \* "new": not yet constructed, "ok": instance exists, "failed"
    self,   \* the fields of the instance
    exc,    \* the exception the last call raised, NoError when it returned
    op,     \* the last call
    arg,    \* the argument of the last mutator call
    fed     \* nested elements of the input record plus mutator calls so far

vars == <<data, cls, pc, self, exc, op, arg, fed>>

Fields(r) == [r EXCEPT !.err = NoError]

(***************************************************************************)
(* Input records                                                            *)
(***************************************************************************)
SeqsUpTo(S, n) == UNION {[1..k -> S] : k \in 0..n}

\* element records before their position gives them a name
ElemIds == RawIds \cup {Missing}
PlainElems == [id : ElemIds, uploader_id : {Missing}]
VideoElems == [id : ElemIds, uploader_id : {IntVal(1), Missing, BadStr}]

\* the i-th element of an input list is named i, so that entries built from
\* different occurrences of one id can be told apart
Named(s) == [i \in 1..Len(s) |-> [id |-> s[i].id, name |-> i,
                                  uploader_id |-> s[i].uploader_id]]

NoKey == [key |-> FALSE, items |-> <<>>]
\* lists the mutators append to: an absent key and an empty list differ
KeyedLists(n) == {NoKey} \cup {[key |-> TRUE, items |-> Named(s)] : s \in SeqsUpTo(PlainElems, n)}
\* lists only read through data.get(key, []): an absent key is the empty list
Lists(n) == {[key |-> Len(s) > 0, items |-> Named(s)] : s \in SeqsUpTo(PlainElems, n)}

\* a video with a missing or malformed uploader_id weighs one more
VideoWeight(s) == Len(s) + Cardinality({i \in 1..Len(s) : s[i].uploader_id # IntVal(1)})
VideoLists(n) == {[key |-> Len(s) > 0, items |-> Named(s)] :
                     s \in {x \in SeqsUpTo(VideoElems, n) : VideoWeight(x) <= n}}
ListWeight(l) == Len(l.items)
VideoListWeight(l) == VideoWeight(l.items)

CommentLists(n) == {[key |-> k > 0, items |-> [i \in 1..k |-> i]] : k \in 0..n}

NoPoll == [present |-> FALSE, has_results |-> FALSE, entries |-> <<>>]
Polls(n, shapes) ==
    {NoPoll} \cup
    (IF n = 0 THEN {}
     ELSE {[present |-> TRUE, has_results |-> FALSE, entries |-> <<>>]} \cup
          {[present |-> TRUE, has_results |-> TRUE, entries |-> e] :
              e \in SeqsUpTo(shapes, n - 1)})
PollWeight(p) == IF p.present THEN 1 + Len(p.entries) ELSE 0

\* a rank entry weighs two; a record without stats weighs one
NoStats == [present |-> FALSE, has_ranks |-> FALSE, ranks |-> <<>>]
StatsInputs(n) ==
    (IF n = 0 THEN {} ELSE {NoStats}) \cup
    {[present |-> TRUE, has_ranks |-> Len(r) > 0, ranks |-> r] :
        r \in SeqsUpTo(RankRecs, n \div 2)}
StatsWeight(s) == IF s.present THEN 2 * Len(s.ranks) ELSE 1

Years(n) == {Missing} \cup (IF n = 0 THEN {} ELSE {IntVal(1)})
GameIds(n) == {IntVal(1)} \cup (IF n = 0 THEN {} ELSE {Missing, BadStr})

Start(d, w) ==
    /\ data = d
    /\ fed = w
    /\ cls = "none"
    /\ pc = "new"
    /\ self = Blank
    /\ exc = NoError
    /\ op = "none"
    /\ arg = Missing

\* every game record of weight at most MaxWeight
Init ==
    \E ex \in KeyedLists(MaxWeight) :
    \E ed \in KeyedLists(MaxWeight - ListWeight(ex)) :
    \E vi \in VideoLists(MaxWeight - ListWeight(ex) - ListWeight(ed)) :
    LET w3 == ListWeight(ex) + ListWeight(ed) + VideoListWeight(vi) IN
    \E ve \in Lists(MaxWeight - w3) :
    \E co \in CommentLists(MaxWeight - w3 - ListWeight(ve)) :
    LET w5 == w3 + ListWeight(ve) + ListWeight(co) IN
    \E st \in StatsInputs(MaxWeight - w5) :
    \E pn \in Polls(MaxWeight - w5 - StatsWeight(st), BOOLEAN) :
    LET w7 == w5 + StatsWeight(st) + PollWeight(pn) IN
    \E pa \in Polls(MaxWeight - w7, {TRUE}) :
    \E pl \in Polls(MaxWeight - w7 - PollWeight(pa), BOOLEAN) :
    LET w9 == w7 + PollWeight(pa) + PollWeight(pl) IN
    \E yr \in Years(MaxWeight - w9) :
    \E gid \in GameIds(MaxWeight - w9 - (IF yr = Missing THEN 0 ELSE 1)) :
        Start([id |-> gid, expansions |-> ex, expands |-> ed, videos |-> vi,
               versions |-> ve, comments |-> co, stats |-> st,
               suggested_numplayers |-> pn, suggested_playerage |-> pa,
               language_dependence |-> pl, yearpublished |-> yr],
              w9 + (IF yr = Missing THEN 0 ELSE 1) + (IF gid = IntVal(1) THEN 0 ELSE 1))

(***************************************************************************)
(* Operations                                                               *)
(***************************************************************************)
\* BoardGame(data)
NewBoardGame ==
    /\ pc = "new"
    /\ LET r == BoardGame_init(data)
       IN  /\ self' = Fields(r)
           /\ exc' = r.err
           /\ pc' = IF r.err = NoError THEN "ok" ELSE "failed"
    /\ cls' = "BoardGame"
    /\ op' = "init"
    /\ UNCHANGED <<data, arg, fed>>

\* CollectionBoardGame(data)
NewCollectionBoardGame ==
    /\ pc = "new"
    /\ LET r == CollectionBoardGame_init(data)
       IN  /\ self' = Fields(r)
           /\ exc' = r.err
           /\ pc' = IF r.err = NoError THEN "ok" ELSE "failed"
    /\ cls' = "CollectionBoardGame"
    /\ op' = "init"
    /\ UNCHANGED <<data, arg, fed>>

\* records handed to the mutators; the name tells the calls apart
CallRecs == [id : ElemIds, name : {10 + fed}, uploader_id : {Missing}]

\* the body shared by add_expansion and add_expanded_game (AddThing, and
\* AddKnownId once data["id"] has been read), on the raw list raw, the seen-id
\* set and the wrapped list:
\*     try:
\*         if data["id"] not in seen:
\*             self._data[key].append(data); seen.add(data["id"])
\*             wrapped.append(Thing(data))
\*     except KeyError: raise BGGError(tag)
\* mutant of AddKnownId: a new entry is put at the head of the wrapped list
AddKnownIdPrepends(raw, set, list, rec, tag) ==
    IF Seen(rec, set) \/ ~raw.key \/ Thing(rec).err # NoError
    THEN [err |-> NoError, raw |-> raw, set |-> set, list |-> list]
    ELSE [err |-> NoError, raw |-> [raw EXCEPT !.items = Append(@, rec)],
          set |-> set \cup {rec.id}, list |-> <<Thing(rec).val>> \o list]

AddKnownId(raw, set, list, rec, tag) ==
    IF Seen(rec, set)
    THEN [err |-> NoError, raw |-> raw, set |-> set, list |-> list]
    ELSE IF ~raw.key
    THEN [err |-> BGGError(tag), raw |-> raw, set |-> set, list |-> list]
    ELSE LET raw2 == [raw EXCEPT !.items = Append(@, rec)]
             set2 == set \cup {rec.id}
             t == Thing(rec)
         IN  IF t.err # NoError
             THEN [err |-> t.err, raw |-> raw2, set |-> set2, list |-> list]
             ELSE [err |-> NoError, raw |-> raw2, set |-> set2,
                   list |-> Append(list, t.val)]

\* mutant of AddThing: the raw record is appended before its id is read
AddThingAppendsFirst(raw, set, list, rec, tag) ==
    IF rec.id = Missing
    THEN [err |-> BGGError(tag),
          raw |-> IF raw.key THEN [raw EXCEPT !.items = Append(@, rec)] ELSE raw,
          set |-> set, list |-> list]
    ELSE AddKnownId(raw, set, list, rec, tag)

AddThing(raw, set, list, rec, tag) ==
    IF rec.id = Missing
    THEN [err |-> BGGError(tag), raw |-> raw, set |-> set, list |-> list]
    ELSE AddKnownId(raw, set, list, rec, tag)

\* BoardGame.add_expansion(rec)
add_expansion(rec) ==
    /\ pc = "ok" /\ cls = "BoardGame" /\ fed < MaxWeight
    /\ LET r == AddThing(data.expansions, self.expansions_set, self.expansions,
                         rec, "invalid expansion data")
       IN  /\ data' = [data EXCEPT !.expansions = r.raw]
           /\ self' = [self EXCEPT !.expansions_set = r.set, !.expansions = r.list]
           /\ exc' = r.err
    /\ op' = "add_expansion"
    /\ arg' = rec
    /\ fed' = fed + 1
    /\ UNCHANGED <<cls, pc>>

\* mutant of add_expanded_game: the wrapped entry also lands in expansions
add_expanded_game_crossed(rec) ==
    /\ pc = "ok" /\ cls = "BoardGame" /\ fed < MaxWeight
    /\ LET r == AddThing(data.expands, self.expands_set, self.expands,
                         rec, "invalid expanded game data")
       IN  /\ data' = [data EXCEPT !.expands = r.raw]
           /\ self' = [self EXCEPT !.expands_set = r.set, !.expands = r.list,
                                   !.expansions = r.list]
           /\ exc' = r.err
    /\ op' = "add_expanded_game"
    /\ arg' = rec
    /\ fed' = fed + 1
    /\ UNCHANGED <<cls, pc>>

\* BoardGame.add_expanded_game(rec)
add_expanded_game(rec) ==
    /\ pc = "ok" /\ cls = "BoardGame" /\ fed < MaxWeight
    /\ LET r == AddThing(data.expands, self.expands_set, self.expands,
                         rec, "invalid expanded game data")
       IN  /\ data' = [data EXCEPT !.expands = r.raw]
           /\ self' = [self EXCEPT !.expands_set = r.set, !.expands = r.list]
           /\ exc' = r.err
    /\ op' = "add_expanded_game"
    /\ arg' = rec
    /\ fed' = fed + 1
    /\ UNCHANGED <<cls, pc>>

\* mutant of add_comment: a comment equal to one already held is dropped
add_comment_unique(c) ==
    /\ pc = "ok" /\ cls = "BoardGame" /\ fed < MaxWeight
    /\ self' = [self EXCEPT !.comments =
                    IF \E i \in 1..Len(@) : @[i] = BoardGameComment(c) THEN @
                    ELSE Append(@, BoardGameComment(c))]
    /\ exc' = NoError
    /\ op' = "add_comment"
    /\ arg' = [id |-> Missing, name |-> c, uploader_id |-> Missing]
    /\ fed' = fed + 1
    /\ UNCHANGED <<data, cls, pc>>

\* BoardGame.add_comment(c)
add_comment(c) ==
    /\ pc = "ok" /\ cls = "BoardGame" /\ fed < MaxWeight
    /\ self' = [self EXCEPT !.comments = Append(@, BoardGameComment(c))]
    /\ exc' = NoError
    /\ op' = "add_comment"
    /\ arg' = [id |-> Missing, name |-> c, uploader_id |-> Missing]
    /\ fed' = fed + 1
    /\ UNCHANGED <<data, cls, pc>>

AddExpansion == \E rec \in CallRecs : add_expansion(rec)
AddExpandedGame == \E rec \in CallRecs : add_expanded_game(rec)
\* a new comment, or one equal to a comment the game already holds
AddComment ==
    \E c \in {10 + fed} \cup {self.comments[i] : i \in 1..Len(self.comments)} : add_comment(c)

Next ==
    \/ NewBoardGame
    \/ NewCollectionBoardGame
    \/ AddExpansion
    \/ AddExpandedGame
    \/ AddComment

Spec == Init /\ [][Next]_vars

(***************************************************************************)
(* BoardGameStats constructed on its own                                    *)
(***************************************************************************)
\* a game record that holds nothing but its id and the stats mapping sd
RecordWith(sd) ==
    [id |-> IntVal(1), expansions |-> NoKey, expands |-> NoKey, videos |-> NoKey,
     versions |-> NoKey, comments |-> NoKey, stats |-> sd,
     suggested_numplayers |-> NoPoll, suggested_playerage |-> NoPoll,
     language_dependence |-> NoPoll, yearpublished |-> Missing]

\* every stats mapping with at most MaxRanks rank entries, with or without
\* the ranks key when there is none
InitStats ==
    \E r \in SeqsUpTo(RankRecs, MaxRanks) :
    \E hr \in {TRUE} \cup (IF Len(r) = 0 THEN {FALSE} ELSE {}) :
        Start(RecordWith([present |-> TRUE, has_ranks |-> hr, ranks |-> r]), 0)

\* BoardGameStats(data["stats"])
NewBoardGameStats ==
    /\ pc = "new"
    /\ LET st == BoardGameStats(data.stats)
       IN  /\ self' = [Blank EXCEPT !.stats = Fields(st)]
           /\ exc' = st.err
           /\ pc' = IF st.err = NoError THEN "ok" ELSE "failed"
    /\ cls' = "BoardGameStats"
    /\ op' = "init"
    /\ UNCHANGED <<data, arg, fed>>

NextStats == NewBoardGameStats

SpecStats == InitStats /\ [][NextStats]_vars

(***************************************************************************)
(* Vocabulary of the properties                                             *)
(***************************************************************************)
\* the step is a call of the mutator `name`
IsCall(name) == op' = name /\ fed' = fed + 1

\* the record carries an id that int() accepts
ValidRec(rec) == rec.id # Missing /\ int(rec.id).err = NoError

\* the id of the record is the id of an entry of the list
IdAmong(rec, list) ==
    ValidRec(rec) /\ \E i \in 1..Len(list) : list[i].id = int(rec.id).val

\* no two entries of the list have the same id
NoDupIds(list) ==
    \A i, j \in 1..Len(list) : i # j => list[i].id # list[j].id

\* the raw records the entries of a list were built from
Sources(list) == [i \in 1..Len(list) |-> list[i].data]

\* the records of an input list whose raw id occurs at no earlier position
RECURSIVE FirstOccurrences(_, _)
FirstOccurrences(items, n) ==
    IF n = 0 THEN <<>>
    ELSE IF \E j \in 1..(n - 1) : items[j].id = items[n].id
         THEN FirstOccurrences(items, n - 1)
         ELSE Append(FirstOccurrences(items, n - 1), items[n])

Deduplicated(l) == FirstOccurrences(GetList(l), Len(GetList(l)))

\* C1: in every state of a constructed Game, whatever add_expansion,
\* add_expanded_game and add_comment calls were made, no two entries of
\* expansions share an id, and the same for expands, versions and videos.
C1_UniqueIds ==
    pc = "ok" =>
        /\ NoDupIds(self.expansions)
        /\ NoDupIds(self.expands)
        /\ NoDupIds(self.versions)
        /\ NoDupIds(self.videos)

C3_NewIdAppended ==
    [][ /\ (IsCall("add_expansion") /\ ValidRec(arg') /\ ~IdAmong(arg', self.expansions))
           => /\ exc' = NoError
              /\ self'.expansions = Append(self.expansions, Thing(arg').val)
        /\ (IsCall("add_expanded_game") /\ ValidRec(arg') /\ ~IdAmong(arg', self.expands))
           => /\ exc' = NoError
              /\ self'.expands = Append(self.expands, Thing(arg').val)
      ]_vars

\* C4: add_expansion (add_expanded_game) with a record whose id is already the
\* id of an entry of expansions (expands) raises nothing and leaves the wrapped
\* list, the seen-id set and the raw backing list unchanged.
C4_KnownIdNoOp ==
    [][ /\ (IsCall("add_expansion") /\ IdAmong(arg', self.expansions))
           => (exc' = NoError /\ self' = self /\ data' = data)
        /\ (IsCall("add_expanded_game") /\ IdAmong(arg', self.expands))
           => (exc' = NoError /\ self' = self /\ data' = data)
      ]_vars

\* C5: add_expansion / add_expanded_game with a record that has no id raise the
\* domain error tagged "invalid expansion data" / "invalid expanded game data",
\* and nothing is appended to any list, wrapped or raw.
C5_MissingIdRejected ==
    [][ /\ (IsCall("add_expansion") /\ arg'.id = Missing)
           => (exc' = BGGError("invalid expansion data") /\ self' = self /\ data' = data)
        /\ (IsCall("add_expanded_game") /\ arg'.id = Missing)
           => (exc' = BGGError("invalid expanded game data") /\ self' = self /\ data' = data)
      ]_vars

\* C5 witness: add_expanded_game was just called without an id on a game that
\* holds an expanded game, and raised
C5_Witness ==
    /\ op = "add_expanded_game" /\ arg.id = Missing
    /\ exc = BGGError("invalid expanded game data")
    /\ Len(self.expands) = 1 /\ data.expands.key

IsGame == cls \in {"BoardGame", "CollectionBoardGame"}

\* C6: constructing a BoardGame or a CollectionBoardGame from a record without
\* stats fails with the domain error, whatever else the record holds.
C6_NoStatsIsDomainError ==
    (op = "init" /\ IsGame /\ ~data.stats.present) =>
        (pc = "failed" /\ exc.kind = "BGGError")

\* some element of the input list has no id
HasIdless(l) == \E i \in 1..Len(GetList(l)) : GetList(l)[i].id = Missing

\* the elements before the first id-less one can all be wrapped
CleanBefore(l, kind) ==
    \A i \in 1..Len(GetList(l)) :
        (\A j \in 1..i : GetList(l)[j].id # Missing) => Wrap(kind, GetList(l)[i]).err = NoError

\* every element has an id and can be wrapped
CleanList(l, kind) == ~HasIdless(l) /\ CleanBefore(l, kind)

\* the parts BoardGame.__init__ handles before it reaches BaseGame.__init__
CleanBoardGamePart ==
    cls = "BoardGame" =>
        /\ CleanList(data.expansions, "thing")
        /\ CleanList(data.expands, "thing")
        /\ CleanList(data.videos, "video")
        /\ PollResults(data.suggested_numplayers, TRUE).err = NoError
        /\ PollResults(data.suggested_playerage, FALSE).err = NoError
        /\ PollResults(data.language_dependence, TRUE).err = NoError

\* C7 as stated: an input list element without id makes construction fail with
\* the domain error tagged for the kind of that list.
C7_IdlessElementTagged ==
    (op = "init" /\ IsGame) =>
        /\ (cls = "BoardGame" /\ HasIdless(data.expansions))
               => (pc = "failed" /\ exc = BGGError("invalid expansion data"))
        /\ (cls = "BoardGame" /\ HasIdless(data.expands))
               => (pc = "failed" /\ exc = BGGError("invalid expanded game data"))
        /\ (cls = "BoardGame" /\ HasIdless(data.videos))
               => (pc = "failed" /\ exc = BGGError("invalid video data"))
        /\ HasIdless(data.versions)
               => (pc = "failed" /\ exc = BGGError("invalid version data"))

\* C7 amended: an input list element without id always makes construction fail,
\* and the error is the domain error tagged for its kind whenever everything the
\* constructor handles before that element is valid (order: expansions,
\* expands, videos, the three polls, stats, versions).
C7_IdlessElementFails ==
    (op = "init" /\ IsGame) =>
        /\ (cls = "BoardGame" /\ (HasIdless(data.expansions) \/ HasIdless(data.expands)
                                  \/ HasIdless(data.videos)))
               => pc = "failed"
        /\ HasIdless(data.versions) => pc = "failed"
        /\ (cls = "BoardGame" /\ HasIdless(data.expansions)
              /\ CleanBefore(data.expansions, "thing"))
               => exc = BGGError("invalid expansion data")
        /\ (cls = "BoardGame" /\ CleanList(data.expansions, "thing")
              /\ HasIdless(data.expands) /\ CleanBefore(data.expands, "thing"))
               => exc = BGGError("invalid expanded game data")
        /\ (cls = "BoardGame" /\ CleanList(data.expansions, "thing")
              /\ CleanList(data.expands, "thing")
              /\ HasIdless(data.videos) /\ CleanBefore(data.videos, "video"))
               => exc = BGGError("invalid video data")
        /\ (CleanBoardGamePart /\ data.stats.present
              /\ BoardGameStats(data.stats).err = NoError
              /\ HasIdless(data.versions) /\ CleanBefore(data.versions, "version"))
               => exc = BGGError("invalid version data")

\* C7 witness: a BoardGame record with a valid expansion and a version list
\* whose second element has no id was rejected as invalid version data
C7_Witness ==
    /\ op = "init" /\ cls = "BoardGame" /\ pc = "failed"
    /\ Len(data.expansions.items) = 1 /\ ValidRec(data.expansions.items[1])
    /\ Len(data.versions.items) = 2
    /\ ValidRec(data.versions.items[1])
    /\ data.versions.items[2].id = Missing
    /\ exc = BGGError("invalid version data")

\* the ranks the statistics constructor iterates over
RanksOf(sd) == IF sd.has_ranks THEN sd.ranks ELSE <<>>

\* position of the last rank entry satisfying F, 0 when there is none
LastWhere(ranks, F(_)) ==
    LET S == {i \in 1..Len(ranks) : F(ranks[i])}
    IN  IF S = {} THEN 0 ELSE CHOOSE i \in S : \A j \in S : j <= i

TypeIsBoardgame(r) == r.type = "boardgame"
NameIsBoardgame(r) == r.name = "boardgame"

\* bgg_rank is the integer value of the last entry designated by F, and is
\* not assigned when F designates no entry
LastDesignatedWins(F(_)) ==
    (pc = "ok" /\ data.stats.present) =>
        LET rs == RanksOf(data.stats)
            k == LastWhere(rs, F)
        IN  IF k = 0 THEN ~self.stats.has_bgg_rank
            ELSE (rs[k].value # Missing /\ int(rs[k].value).err = NoError)
                     => /\ self.stats.has_bgg_rank
                        /\ self.stats.bgg_rank = IntVal(int(rs[k].value).val)

\* C8 as stated: bgg_rank is the integer value of the last rank entry whose
\* `type` is "boardgame"; entries of any other type never affect it.
C8_LastTypeBoardgameWins == LastDesignatedWins(TypeIsBoardgame)

\* C8 amended: bgg_rank is the integer value of the last rank entry whose
\* `name` is "boardgame"; entries with any other name never affect it.
C8_LastNameBoardgameWins == LastDesignatedWins(NameIsBoardgame)

\* C8 witness: two entries named "boardgame" (typed otherwise) with values 1
\* and 2 were scanned, and bgg_rank is 2
C8_Witness ==
    /\ pc = "ok" /\ cls = "BoardGameStats"
    /\ Len(data.stats.ranks) = 2
    /\ \A i \in 1..2 : /\ data.stats.ranks[i].name = "boardgame"
                       /\ data.stats.ranks[i].type = "family"
                       /\ data.stats.ranks[i].value = IntVal(i)
    /\ self.stats.bgg_rank = IntVal(2)

\* C9: when the value of the boardgame rank entry is missing or a non-numeric
\* string, statistics construction raises nothing and bgg_rank is null.
C9_UnparsableRankIsNull ==
    (/\ op = "init" /\ cls = "BoardGameStats"
     /\ \E i \in 1..Len(RanksOf(data.stats)) : RanksOf(data.stats)[i].name = "boardgame"
     /\ \A i \in 1..Len(RanksOf(data.stats)) :
            LET r == RanksOf(data.stats)[i]
            IN  /\ r.id # Missing
                /\ r.type = r.name
                /\ r.name = "boardgame" => r.value \in {Missing, BadStr})
    => /\ pc = "ok"
       /\ exc = NoError
       /\ Stats_bgg_rank(self.stats) = [err |-> NoError, val |-> None]

\* C10: with no ranks key, an empty ranks list or no boardgame rank among the
\* ranks, statistics construction succeeds and reading bgg_rank, on the
\* statistics or through the game, yields null; bgg_rank is always null or an
\* integer.
C10_BggRankReadsNull ==
    /\ (/\ op = "init" /\ data.stats.present
        /\ \A i \in 1..Len(RanksOf(data.stats)) :
               LET r == RanksOf(data.stats)[i]
               IN  r.id # Missing /\ r.name # "boardgame" /\ r.type # "boardgame"
        /\ cls = "BoardGameStats")
       => /\ pc = "ok"
          /\ Stats_bgg_rank(self.stats) = [err |-> NoError, val |-> None]
          /\ Game_bgg_rank(self) = [err |-> NoError, val |-> None]
    /\ pc = "ok" => self.stats.bgg_rank.k \in {"none", "int"}

\* s is an initial segment of t
IsPrefix(s, t) == Len(s) <= Len(t) /\ SubSeq(t, 1, Len(s)) = s

\* C11: a BoardGame built with n input comments holds exactly those, in input
\* order, as the first n comments for ever after, and every add_comment call
\* appends its comment at the end, whether or not an equal comment is already
\* held: after k calls the list has n + k comments, the added ones in call
\* order.
C11_CommentsAppended ==
    /\ []((pc = "ok" /\ cls = "BoardGame") =>
             /\ IsPrefix(GetList(data.comments), self.comments)
             /\ op = "init" => self.comments = GetList(data.comments))
    /\ [][IsCall("add_comment") =>
             /\ exc' = NoError
             /\ self'.comments = Append(self.comments, arg'.name)]_vars

\* C11 witness: a game built with one comment received that same comment
\* again and then once more, and holds it three times
C11_Witness ==
    /\ pc = "ok" /\ op = "add_comment"
    /\ Len(GetList(data.comments)) = 1
    /\ Len(self.comments) = 3
    /\ self.comments[2] = self.comments[1]
    /\ self.comments[3] = self.comments[1]
    /\ arg.name = self.comments[1]

\* C12: along any sequence of mutator calls on a constructed game, comments,
\* expansions and expands only grow at the end: the list before a step is an
\* initial segment of the list after it.
C12_ListsOnlyGrow ==
    [][pc = "ok" =>
          /\ IsPrefix(self.comments, self'.comments)
          /\ IsPrefix(self.expansions, self'.expansions)
          /\ IsPrefix(self.expands, self'.expands)]_vars

\* C12 witness: add_expansion put a new entry behind the expansion the game
\* was built with
C12_Witness ==
    /\ pc = "ok" /\ op = "add_expansion" /\ exc = NoError
    /\ Len(self.expansions) = 2
    /\ self.expansions[1].name = 1
    /\ self.expansions[2].name = arg.name

\* the fields a mutator may not touch unless they are its own
FrameFields ==
    {"expansions", "expands", "comments", "versions", "videos", "stats",
     "year_published", "poll_results_numplayers", "poll_results_playerage",
     "poll_results_langdeps"}

\* the step leaves every field but `own` as it was
Keeps(own) == \A f \in FrameFields \ {own} : self'[f] = self[f]

\* C13: add_expansion changes no list but expansions, add_expanded_game none
\* but expands, add_comment none but comments; none of them changes versions,
\* videos, the statistics, the year or the poll-result lists.
C13_MutatorsKeepTheRest ==
    [][ /\ IsCall("add_expansion") => Keeps("expansions")
        /\ IsCall("add_expanded_game") => Keeps("expands")
        /\ IsCall("add_comment") => Keeps("comments")
      ]_vars

\* C13 witness: add_expanded_game appended to expands on a game that holds an
\* expansion and a comment
C13_Witness ==
    /\ pc = "ok" /\ op = "add_expanded_game" /\ exc = NoError
    /\ Len(self.expands) = 1
    /\ Len(self.expansions) = 1
    /\ Len(self.comments) = 1

\* the uploader_id of the record is absent or not coercible to an integer
BadUploader(rec) == rec.uploader_id = Missing \/ int(rec.uploader_id).err # NoError

\* C14: a video record without uploader_id, or with one that int() rejects,
\* makes construction fail with the domain error and no other kind, both for
\* the video on its own and for the game whose videos list it heads.
C14_BadUploaderIsDomainError ==
    (/\ Len(GetList(data.videos)) > 0
     /\ ValidRec(GetList(data.videos)[1])
     /\ BadUploader(GetList(data.videos)[1]))
    => /\ BoardGameVideo(GetList(data.videos)[1]).err.kind = "BGGError"
       /\ (op = "init" /\ cls = "BoardGame")
              => (pc = "failed" /\ exc.kind = "BGGError")

\* the call appended rec to the raw list and an entry built from it to the
\* wrapped list
BothGained(raw, raw2, list, list2, rec) ==
    /\ raw2.key
    /\ raw2.items = Append(raw.items, rec)
    /\ Len(list2) = Len(list) + 1
    /\ SubSeq(list2, 1, Len(list)) = list
    /\ list2[Len(list2)].data = rec
    /\ ValidRec(rec) /\ list2[Len(list2)].id = int(rec.id).val

\* C15: after any add_expansion / add_expanded_game call, returned or raised,
\* either the raw backing list and the wrapped list both gained one entry for
\* the record, or neither changed.
C15_RawAndWrappedInSync ==
    [][ /\ IsCall("add_expansion") =>
              \/ BothGained(data.expansions, data'.expansions,
                            self.expansions, self'.expansions, arg')
              \/ (data'.expansions = data.expansions /\ self'.expansions = self.expansions)
        /\ IsCall("add_expanded_game") =>
              \/ BothGained(data.expands, data'.expands,
                            self.expands, self'.expands, arg')
              \/ (data'.expands = data.expands /\ self'.expands = self.expands)
      ]_vars

\* C16: the ranks list of a constructed statistics object has one entry per
\* element of the input ranks, built from it, in input order; with no ranks
\* key it is empty.
C16_RanksKeptInOrder ==
    (pc = "ok" /\ data.stats.present) =>
        /\ Len(Stats_ranks(self.stats)) = Len(RanksOf(data.stats))
        /\ Sources(Stats_ranks(self.stats)) = RanksOf(data.stats)
        /\ ~data.stats.has_ranks => Stats_ranks(self.stats) = <<>>

\* C16 witness: two equal rank entries, both named "boardgame", were scanned
\* and both are in the list
C16_Witness ==
    /\ pc = "ok" /\ cls = "BoardGameStats"
    /\ Len(data.stats.ranks) = 2
    /\ data.stats.ranks[1] = data.stats.ranks[2]
    /\ data.stats.ranks[1].name = "boardgame"
    /\ Len(Stats_ranks(self.stats)) = 2

\* the record with its three poll keys removed
WithoutPolls(d) ==
    [d EXCEPT !.suggested_numplayers = NoPoll,
              !.suggested_playerage = NoPoll,
              !.language_dependence = NoPoll]

\* C17: for a record that constructs once its poll keys are removed, BoardGame
\* construction succeeds whatever the poll keys hold, and an absent poll key
\* gives an empty list.
C17_PollsNeverFail ==
    (/\ op = "init" /\ cls = "BoardGame"
     /\ BoardGame_init(WithoutPolls(data)).err = NoError)
    => /\ pc = "ok"
       /\ ~data.suggested_numplayers.present => self.poll_results_numplayers = <<>>
       /\ ~data.suggested_playerage.present => self.poll_results_playerage = <<>>
       /\ ~data.language_dependence.present => self.poll_results_langdeps = <<>>

\* C18: an add_expansion / add_expanded_game call that raises leaves the
\* wrapped list, the seen-id set and the raw backing list as they were.
C18_FailedAddChangesNothing ==
    [][ (/\ IsCall("add_expansion") \/ IsCall("add_expanded_game")
         /\ exc' # NoError)
        => (self' = self /\ data' = data)
      ]_vars

\* the seen-id set holds the ids of the entries of the list and nothing else,
\* ids compared as integers, and has as many members as the list has entries
SetMatchesList(set, list) ==
    /\ \A x \in set : /\ int(x).err = NoError
                      /\ \E i \in 1..Len(list) : list[i].id = int(x).val
    /\ \A i \in 1..Len(list) : \E x \in set : int(x).err = NoError /\ int(x).val = list[i].id
    /\ Cardinality(set) = Len(list)

\* C19: in every state of a constructed game each seen-id set holds exactly
\* the ids of the entries of its list and is as large as the list is long.
C19_SeenSetsMatchLists ==
    (pc = "ok" /\ IsGame) =>
        /\ SetMatchesList(self.expansions_set, self.expansions)
        /\ SetMatchesList(self.expands_set, self.expands)
        /\ SetMatchesList(self.videos_ids, self.videos)
        /\ SetMatchesList(self.versions_set, self.versions)

====
